---- MODULE Spec2Model ----
(***************************************************************************)
(* Model of the resume ingestion pipeline and of the structured-generation *)
(* contract of src/App.tsx (App component and services/geminiService).     *)
(*                                                                         *)
(* Strings are sequences of one-character strings, so that trim() and      *)
(* split(/\s+/) are computed character by character as JavaScript does.    *)
(***************************************************************************)
EXTENDS Integers, Sequences, FiniteSets, TLC

VARIABLES
    userCvFile,     \* useState<File | null>            (App.tsx:219)
    userCvText,     \* useState('')                     (App.tsx:220)
    parsingError,   \* useState<string | null>          (App.tsx:228)
    isParsing,      \* useState(false)                  (App.tsx:226)
    isScanning,     \* useState(false)                  (App.tsx:227)
    attempts,       \* the handleFileChange invocations, each with its closure
    lastOp,         \* the last user operation on the uploader
    scanPdf,        \* the decoded PDF handed to parseFile
    scanResult,     \* what parseFile returned for scanPdf
    ocr,            \* one run of performOcrOnPdf
    opt,            \* handleOptimize and its run of optimizeCvWithGemini
    jobDescriptionText, \* useState('')                (App.tsx:221)
    optimizedCvData,    \* useState<CvData | null>     (App.tsx:222)
    isLoading,          \* useState(false)             (App.tsx:223)
    error               \* useState<string | null>     (App.tsx:224)

vars == <<userCvFile, userCvText, parsingError, isParsing, isScanning,
          attempts, lastOp, scanPdf, scanResult, ocr, opt,
          jobDescriptionText, optimizedCvData, isLoading, error>>

ingestVars == <<userCvFile, userCvText, parsingError, isParsing, isScanning,
                attempts, lastOp>>

scanVars == <<scanPdf, scanResult>>

appVars == <<jobDescriptionText, optimizedCvData, isLoading, error>>

Null == "null"

PdfType == "application/pdf"

DocxType == "application/vnd.openxmlformats-officedocument.wordprocessingml.document"

(***************************************************************************)
(* JavaScript string primitives.                                           *)
(***************************************************************************)

\* The characters /\s/ matches, among those the model's texts use.
IsSpace(c) == c \in {" ", "\n", "\t"}

\* String.prototype.trim: the text from its first to its last character that
\* is not white space, the empty string when there is none.
Trim(s) ==
    IF \A i \in 1..Len(s) : IsSpace(s[i]) THEN <<>>
    ELSE LET first == CHOOSE i \in 1..Len(s) :
                        ~IsSpace(s[i]) /\ \A j \in 1..(i - 1) : IsSpace(s[j])
             last == CHOOSE i \in 1..Len(s) :
                        ~IsSpace(s[i]) /\ \A j \in (i + 1)..Len(s) : IsSpace(s[j])
         IN  SubSeq(s, first, last)

\* The number of pieces s.split(/\s+/) returns: one more than the number of
\* matches of /\s+/ in s, which are the maximal whitespace runs of s.  A run
\* at the start or at the end of s still separates (an empty piece on that
\* side), and the empty string gives the one piece ''.
SplitWsLength(s) ==
    1 + Cardinality({i \in 1..Len(s) :
                        IsSpace(s[i]) /\ (i = 1 \/ ~IsSpace(s[i - 1]))})

\* Array.prototype.join over strings.
RECURSIVE Join(_, _)
Join(items, sep) ==
    IF items = <<>> THEN <<>>
    ELSE IF Len(items) = 1 THEN items[1]
    ELSE items[1] \o sep \o Join(Tail(items), sep)

(***************************************************************************)
(* parseFile (App.tsx:230-249).                                            *)
(***************************************************************************)

\* The scan heuristic's word threshold.
ScanWordThreshold == 50

\* A page's text: text.items.map(item => item.str).join(' ') + '\n'
PageText(page) == Join(page, <<" ">>) \o <<"\n">>

\* The for loop over pages 1..numPages, appending each page's text.
RECURSIVE TextContent(_)
TextContent(pages) ==
    IF pages = <<>> THEN <<>>
    ELSE PageText(Head(pages)) \o TextContent(Tail(pages))

IsScannedLooseThreshold(numPages, textContent) ==
    numPages > 0 /\ SplitWsLength(Trim(textContent)) <= ScanWordThreshold

\* pdf.numPages > 0 && textContent.trim().split(/\s+/).length < 50
IsScannedHeuristic(numPages, textContent) ==
    numPages > 0 /\ SplitWsLength(Trim(textContent)) < ScanWordThreshold

\* What parseFile does with a file whose container opens: it resolves with
\* the text and the verdict, or throws for a type that is neither PDF nor
\* DOCX (ok = FALSE).
ParseFile(file) ==
    IF file.type = PdfType
    THEN LET textContent == TextContent(file.pages)
         IN  [ok |-> TRUE, text |-> textContent,
              isScanned |-> IsScannedHeuristic(Len(file.pages), textContent)]
    ELSE IF file.type = DocxType
    THEN [ok |-> TRUE, text |-> file.body, isScanned |-> FALSE]
    ELSE [ok |-> FALSE, text |-> <<>>, isScanned |-> FALSE]

(***************************************************************************)
(* Inputs of the scan heuristic: decoded PDFs around the threshold.        *)
(***************************************************************************)

MaxScanPages == 2

\* How many text items a page carries: none, a few, and counts whose sums
\* fall on both sides of the threshold.
ItemCounts == {0, 1, 2, 23, 24, 25, 26}

\* A text item's str: a word, two words, the empty string, or white space.
ItemKinds == {"word", "pair", "empty", "blank"}

ItemStr(kind) ==
    CASE kind = "word" -> <<"w">>
      [] kind = "pair" -> <<"w", " ", "w">>
      [] kind = "empty" -> <<>>
      [] OTHER -> <<" ">>

MkPage(kind, n) == [j \in 1..n |-> ItemStr(kind)]

PageShapes == [kind : ItemKinds, n : ItemCounts]

MkPdf(shapes) ==
    [type |-> PdfType,
     pages |-> [i \in 1..Len(shapes) |-> MkPage(shapes[i].kind, shapes[i].n)],
     body |-> <<>>]

\* The decoded PDFs of n pages.
ScanPdfs(n) == {MkPdf(shapes) : shapes \in [1..n -> PageShapes]}

\* The number of words of a text: its maximal runs of non-space characters.
WordCount(s) ==
    Cardinality({i \in 1..Len(s) :
                    ~IsSpace(s[i]) /\ (i = 1 \/ IsSpace(s[i - 1]))})

(***************************************************************************)
(* Thrown values.  A thrown value is described by what the handlers        *)
(* inspect: instanceof Error, its name, its message (Null when the value   *)
(* has no message property, as a thrown string or undefined has none).     *)
(***************************************************************************)

Thrown(isError, name, message) ==
    [isError |-> isError, name |-> name, message |-> message]

PasswordException == Thrown(TRUE, "PasswordException", "No password given")

InvalidPDFException == Thrown(TRUE, "InvalidPDFException", "Invalid PDF structure.")

UnknownErrorException == Thrown(TRUE, "UnknownErrorException", "Unexpected server response")

DocxReadError == Thrown(TRUE, "Error", "Can't find end of central directory")

RenderError == Thrown(TRUE, "Error", "Rendering failed")

ThrownString == Thrown(FALSE, Null, Null)

ThrownObject == Thrown(FALSE, Null, "detail")

\* new Error('Unsupported file type')                          App.tsx:248
UnsupportedTypeError == Thrown(TRUE, "Error", "Unsupported file type")

\* new Error("AI OCR returned no text.")                       App.tsx:307
OcrNoTextError == Thrown(TRUE, "Error", "AI OCR returned no text.")

\* new Error("Could not convert PDF pages to images for OCR.") App.tsx:277
NoImagesError ==
    Thrown(TRUE, "Error", "Could not convert PDF pages to images for OCR.")

\* new Error("The API key is invalid. ...")                    App.tsx:740
OcrKeyError ==
    Thrown(TRUE, "Error", "The API key is invalid. Please check your configuration.")

\* new Error("Failed to extract text from the document image using AI.") App.tsx:742
OcrApiError ==
    Thrown(TRUE, "Error", "Failed to extract text from the document image using AI.")

\* The needles the handlers search messages for, and the messages that hold them.
NeedlesIn(message) ==
    CASE message = "AI OCR returned no text." -> {"AI OCR returned no text."}
      [] message = "Failed to extract text from the document image using AI."
            -> {"Failed to extract text"}
      [] message = "API key not valid. Please pass a valid API key."
            -> {"API key not valid"}
      [] OTHER -> {}

\* message.includes(needle), for a message that is a string.
Includes(message, needle) == needle \in NeedlesIn(message)

(***************************************************************************)
(* The catch block of handleFileChange (App.tsx:313-336).                  *)
(***************************************************************************)

InvalidTypeMsg == "Invalid file type. Use PDF or DOCX."

OcrEmptyMsg == "AI could not read any text from this document."

OcrFailedMsg == "AI-powered text extraction failed. The document might be unreadable or a network issue occurred."

PasswordMsg == "This PDF is password-protected. Please upload an unprotected file."

CorruptMsg == "The uploaded PDF file appears to be invalid or corrupted."

DocxMsg == "Could not read the DOCX file. It may be corrupted or in an old format."

GenericReadMsg == "Failed to read the contents of this file."

UnexpectedMsg == "An unexpected error occurred while processing the file."

\* err.message.includes(...) is evaluated first: it throws a TypeError when
\* err has no message, and the catch block is left before setParsingError.
CatchThrows(err) == err.message = Null

CategoryMessageErrorFirst(err, fileType) ==
    IF err.isError
    THEN (IF fileType = DocxType THEN DocxMsg ELSE GenericReadMsg)
    ELSE IF Includes(err.message, "AI OCR returned no text.") THEN OcrEmptyMsg
    ELSE IF Includes(err.message, "Failed to extract text") THEN OcrFailedMsg
    ELSE IF err.name = "PasswordException" THEN PasswordMsg
    ELSE IF err.name \in {"InvalidPDFException", "MissingPDFException"} THEN CorruptMsg
    ELSE UnexpectedMsg

\* The if / else-if chain, for an err whose message is a string.
CategoryMessage(err, fileType) ==
    IF Includes(err.message, "AI OCR returned no text.") THEN OcrEmptyMsg
    ELSE IF Includes(err.message, "Failed to extract text") THEN OcrFailedMsg
    ELSE IF err.name = "PasswordException" THEN PasswordMsg
    ELSE IF err.name \in {"InvalidPDFException", "MissingPDFException"} THEN CorruptMsg
    ELSE IF err.isError
         THEN (IF fileType = DocxType THEN DocxMsg ELSE GenericReadMsg)
    ELSE UnexpectedMsg

(***************************************************************************)
(* The files a user selects, and what their readers can do.                *)
(***************************************************************************)

FileNames == {"scan49.pdf", "text50.pdf", "short.docx", "notes.txt"}

Words(n) == Join([j \in 1..n |-> <<"w">>], <<" ">>)

\* The files: a two-page PDF of 49 words, one of 50 words, a DOCX of three
\* words, and a plain text file.
Files ==
    [name \in FileNames |->
        CASE name = "scan49.pdf" ->
                MkPdf(<<[kind |-> "word", n |-> 24], [kind |-> "word", n |-> 25]>>)
          [] name = "text50.pdf" ->
                MkPdf(<<[kind |-> "word", n |-> 25], [kind |-> "word", n |-> 25]>>)
          [] name = "short.docx" ->
                [type |-> DocxType, pages |-> <<>>, body |-> Words(3)]
          [] OTHER ->
                [type |-> "text/plain", pages |-> <<>>, body |-> Words(3)]]

FileOf(name) == Files[name]

\* parseFile(file), for each of the files.
Parsed == [name \in FileNames |-> ParseFile(Files[name])]

AcceptedTypes == {PdfType, DocxType}

\* What parseFile can reject with: the decoder's exceptions for a PDF, the
\* DOCX reader's error for a DOCX, and values that are not Error objects.
ParseThrows(fileType) ==
    IF fileType = PdfType
    THEN {PasswordException, InvalidPDFException, UnknownErrorException,
          ThrownString, ThrownObject}
    ELSE IF fileType = DocxType
    THEN {DocxReadError, ThrownString}
    ELSE {UnsupportedTypeError}

\* What page.render can reject with.
RasterThrows == {RenderError, ThrownString}

\* What performOcrOnPdf can reject with: the decoder's error, its own
\* no-image error, the rasterizer's errors, and the two errors of
\* extractTextFromImagesWithGemini.
OcrThrows ==
    {UnknownErrorException, NoImagesError} \cup RasterThrows
        \cup {OcrKeyError, OcrApiError}

\* response.text: a string, or undefined when the response carries no text.
Str(chars) == [defined |-> TRUE, chars |-> chars]

Undefined == [defined |-> FALSE, chars |-> <<>>]

\* What performOcrOnPdf can resolve with.
OcrTexts == {Undefined, Str(<<>>), Str(<<" ", "\n">>), Str(<<"o", " ", "o">>)}

\* !ocrText || ocrText.trim().length === 0
OcrTextIsEmpty(t) == ~t.defined \/ t.chars = <<>> \/ Len(Trim(t.chars)) = 0

(***************************************************************************)
(* The ingestion state of App (App.tsx:218-349).  An invocation of        *)
(* handleFileChange suspends at `await parseFile(file)` and, on the        *)
(* scanned branch, at `await performOcrOnPdf(file)`; the code between two  *)
(* suspensions runs as one step.  The awaits inside parseFile and          *)
(* performOcrOnPdf touch no state of App; performOcrOnPdf is modelled      *)
(* step by step under SpecOcr.                                             *)
(***************************************************************************)

MaxAttempts == 2

NoCause == Thrown(FALSE, Null, "none")

NewAttempt(name, overlap) ==
    [pc |-> "parsing", file |-> name, overlap |-> overlap, branch |-> "none",
     ocrRuns |-> 0, outcome |-> "pending", cause |-> NoCause, text |-> <<>>]

InFlight(a) == attempts[a].pc # "done"

FileTypeOf(a) == FileOf(attempts[a].file).type

TakesOcrPathAnyPdf(fileType, parsed) == fileType = PdfType

\* isScanned && file.type === 'application/pdf'              App.tsx:302
TakesOcrPath(fileType, parsed) == parsed.isScanned /\ fileType = PdfType

(***************************************************************************)
(* The generation capability (ai.models.generateContent) and               *)
(* extractTextFromImagesWithGemini (App.tsx:713-744).                      *)
(***************************************************************************)

ApiKeyInvalid ==
    Thrown(TRUE, "ApiError", "API key not valid. Please pass a valid API key.")

QuotaExceeded == Thrown(TRUE, "ApiError", "Resource has been exhausted")

NetworkFailure == Thrown(TRUE, "TypeError", "Failed to fetch")

\* The response body was not JSON (a gateway's error page): a SyntaxError.
BodySyntaxError == Thrown(TRUE, "SyntaxError", "Unexpected token < in JSON")

\* What generateContent can reject with.
GenThrows == {ApiKeyInvalid, QuotaExceeded, NetworkFailure, BodySyntaxError, ThrownString}

OcrPrompt == "You are an Optical Character Recognition (OCR) expert. ..."

ExtractRequestsPerPage(base64Images) ==
    [k \in 1..Len(base64Images) |-> <<OcrPrompt, base64Images[k]>>]

\* The generation requests extractTextFromImagesWithGemini issues: one, whose
\* parts are the prompt and then every image, in order (719-735).
ExtractRequests(base64Images) == << <<OcrPrompt>> \o base64Images >>

\* The catch block of extractTextFromImagesWithGemini (737-743).
ExtractError(raw) ==
    IF raw.isError /\ Includes(raw.message, "API key not valid")
    THEN OcrKeyError
    ELSE OcrApiError

(***************************************************************************)
(* optimizeCvWithGemini (App.tsx:656-711) and cvSchema (601-653).          *)
(*                                                                         *)
(* A JSON value is described by its type and, for an object, by its        *)
(* top-level properties: "ok" (present, of the schema's type, with its own *)
(* required properties), "null", or "bad" (present, but of another type or *)
(* lacking a required property of its own).                                *)
(***************************************************************************)

\* cvSchema.required                                            App.tsx:652
RequiredFields ==
    {"fullName", "contactInfo", "summary", "workExperience", "education", "skills"}

PropertyStates == {"ok", "null", "bad"}

JsonScalar(tag) == [tag |-> tag, props |-> <<>>]

JsonObject(props) == [tag |-> "object", props |-> props]

JsonValues ==
    {JsonScalar(tag) : tag \in {"null", "number", "string", "array"}}
    \cup UNION {{JsonObject(props) : props \in [present -> PropertyStates]} :
                    present \in SUBSET RequiredFields}

\* The value conforms to cvSchema: an object with every required property
\* present, non-null and of its type.
ConformsToCvSchema(v) ==
    /\ v.tag = "object"
    /\ RequiredFields \subseteq DOMAIN v.props
    /\ \A f \in RequiredFields : v.props[f] = "ok"

\* response.text: undefined, or a string that is the serialization of a JSON
\* value, or a string that is no JSON text at all.
ResponseText(defined, wellFormed, value) ==
    [defined |-> defined, wellFormed |-> wellFormed, value |-> value]

ResponseTexts ==
    {ResponseText(FALSE, FALSE, JsonScalar("null")),
     ResponseText(TRUE, FALSE, JsonScalar("null"))}
    \cup {ResponseText(TRUE, TRUE, v) : v \in JsonValues}

MalformedMsg == "The AI returned an invalid JSON format. Please try again."

InvalidKeyMsg == "The API key is invalid. Please check your configuration."

GenerationFailedMsg == "Failed to generate optimized CV due to an API error."

OptReturn(value) == [kind |-> "return", value |-> value, message |-> Null]

OptThrow(message) == [kind |-> "throw", value |-> JsonScalar("null"), message |-> message]

\* The catch block (701-710), for whatever the try block threw.
OptimizeCatch(err) ==
    IF err.isError /\ err.name = "SyntaxError" THEN OptThrow(MalformedMsg)
    ELSE IF err.isError /\ Includes(err.message, "API key not valid")
         THEN OptThrow(InvalidKeyMsg)
    ELSE OptThrow(GenerationFailedMsg)

\* response.text.trim() on an undefined text throws a TypeError; JSON.parse
\* throws a SyntaxError on a text that is not JSON (695-699).
OptimizeParse(text) ==
    IF ~text.defined
    THEN OptimizeCatch(Thrown(TRUE, "TypeError", "Cannot read properties of undefined"))
    ELSE IF ~text.wellFormed
    THEN OptimizeCatch(Thrown(TRUE, "SyntaxError", "Unexpected token"))
    ELSE OptReturn(text.value)

NoOutcome == [kind |-> "none", text |-> ResponseText(FALSE, FALSE, JsonScalar("null")),
              raw |-> NoCause]

\* handleOptimize has not been invoked yet.  invoked counts the invocations
\* of handleOptimize, started those that passed its guard, and calls holds
\* the generateContent requests issued so far.
OptIdle ==
    [pc |-> "idle", invoked |-> 0, started |-> 0, calls |-> <<>>,
     outcome |-> NoOutcome, result |-> OptThrow(Null)]

\* The number of handleOptimize invocations explored.
MaxOptimizeRuns == 2

\* The argument of ai.models.generateContent (686-693).
GenerateRequest(currentUserCv, jobDescription) ==
    [model |-> "gemini-2.5-flash",
     contents |-> <<currentUserCv, jobDescription>>,
     responseMimeType |-> "application/json",
     responseSchema |-> "cvSchema"]

\* optimizeCvWithGemini is invoked: the prompt is built and generateContent
\* is called with responseSchema: cvSchema (656-693).
OptCall ==
    opt' = [opt EXCEPT !.pc = "generating",
                       !.invoked = @ + 1,
                       !.started = @ + 1,
                       !.calls = Append(@, GenerateRequest(userCvText, jobDescriptionText)),
                       !.outcome = NoOutcome,
                       !.result = OptThrow(Null)]

\* optimizedCvData: null, or the value optimizeCvWithGemini returned.
NoCvData == [set |-> FALSE, value |-> JsonScalar("null")]

CvData(value) == [set |-> TRUE, value |-> value]

IsFormValidNoTrim(cvText, jdText) == cvText # <<>> /\ jdText # <<>>

\* isFormValid (351).
IsFormValid(cvText, jdText) == Trim(cvText) # <<>> /\ Trim(jdText) # <<>>

\* The texts typed into the job description field.
JobDescriptions == {<<>>, <<" ", "\n">>, <<"j", "d">>}

\* The textarea's onChange (427).
SetJobDescriptionText(text) ==
    /\ text \in JobDescriptions
    /\ text # jobDescriptionText
    /\ jobDescriptionText' = text
    /\ UNCHANGED <<ingestVars, scanVars, ocr, opt, optimizedCvData, isLoading, error>>

\* handleOptimize up to `await optimizeCvWithGemini(...)` (353-361).  The
\* button that calls it is disabled while isLoading (435), so an invocation
\* does not start while another one is awaiting.
HandleOptimize ==
    /\ opt.pc \in {"idle", "done"}
    /\ ~isLoading
    /\ opt.invoked < MaxOptimizeRuns
    /\ IF ~IsFormValid(userCvText, jobDescriptionText) \/ isParsing \/ isScanning
       THEN /\ opt' = [opt EXCEPT !.invoked = @ + 1]
            /\ UNCHANGED <<optimizedCvData, isLoading, error>>
       ELSE /\ isLoading' = TRUE
            /\ error' = Null
            /\ optimizedCvData' = NoCvData
            /\ OptCall
    /\ UNCHANGED <<ingestVars, scanVars, ocr, jobDescriptionText>>

\* handleOptimize after the await (361-367): every value optimizeCvWithGemini
\* throws is an Error (703-709), so the message shown is that error's message.
HandleOptimizeSettled(result) ==
    /\ IF result.kind = "return"
       THEN /\ optimizedCvData' = CvData(result.value)
            /\ UNCHANGED error
       ELSE /\ error' = result.message
            /\ UNCHANGED optimizedCvData
    /\ isLoading' = FALSE
    /\ UNCHANGED jobDescriptionText

\* generateContent resolves (695-699).
OptGenerateResolved(text) ==
    /\ opt.pc = "generating"
    /\ text \in ResponseTexts
    /\ opt' = [opt EXCEPT !.pc = "done",
                          !.outcome = [kind |-> "resolved", text |-> text, raw |-> NoCause],
                          !.result = OptimizeParse(text)]
    /\ HandleOptimizeSettled(OptimizeParse(text))
    /\ UNCHANGED <<ingestVars, scanVars, ocr>>

OptGenerateRejectedRetries(raw) ==
    /\ opt.pc = "generating"
    /\ raw \in GenThrows
    /\ IF Len(opt.calls) <= opt.started
       THEN /\ opt' = [opt EXCEPT !.calls = Append(@, @[Len(@)])]
            /\ UNCHANGED appVars
       ELSE /\ opt' = [opt EXCEPT !.pc = "done",
                                  !.outcome = [kind |-> "rejected",
                                               text |-> NoOutcome.text, raw |-> raw],
                                  !.result = OptimizeCatch(raw)]
            /\ HandleOptimizeSettled(OptimizeCatch(raw))
    /\ UNCHANGED <<ingestVars, scanVars, ocr>>

\* generateContent rejects (701-710).
OptGenerateRejected(raw) ==
    /\ opt.pc = "generating"
    /\ raw \in GenThrows
    /\ opt' = [opt EXCEPT !.pc = "done",
                          !.outcome = [kind |-> "rejected", text |-> NoOutcome.text,
                                       raw |-> raw],
                          !.result = OptimizeCatch(raw)]
    /\ HandleOptimizeSettled(OptimizeCatch(raw))
    /\ UNCHANGED <<ingestVars, scanVars, ocr>>

NextOpt ==
    \/ \E text \in JobDescriptions : SetJobDescriptionText(text)
    \/ HandleOptimize
    \/ \E text \in ResponseTexts : OptGenerateResolved(text)
    \/ \E raw \in GenThrows : OptGenerateRejected(raw)

(***************************************************************************)
(* performOcrOnPdf (App.tsx:251-281), one step per suspension.             *)
(***************************************************************************)

MaxOcrPages == 12

Min(x, y) == IF x <= y THEN x ELSE y

MaxPagesForOcrUncapped(numPages) == numPages

\* Math.min(pdf.numPages, 5)                                  App.tsx:256
MaxPagesForOcr(numPages) == Min(numPages, 5)

NoResult == [kind |-> "none", text |-> Undefined, err |-> NoCause]

OcrIdle ==
    [pc |-> "idle", numPages |-> 0, i |-> 0, images |-> <<>>, log |-> <<>>,
     loopDone |-> FALSE, calls |-> <<>>, result |-> NoResult]

OcrThrew(err) == [kind |-> "throw", text |-> Undefined, err |-> err]

OcrReturned(text) == [kind |-> "text", text |-> text, err |-> NoCause]

\* The encoded image of page k (the payload of canvas.toDataURL(...)).
PageImage(k) == k

Event(ev, page) == [ev |-> ev, page |-> page]

\* file.arrayBuffer() and getDocument(...).promise resolve (252-256).
OcrOpenResolved ==
    /\ ocr.pc = "open"
    /\ ocr' = [ocr EXCEPT !.pc = "loop", !.i = 1]
    /\ UNCHANGED <<ingestVars, scanVars, opt, appVars>>

\* They reject.
OcrOpenRejected ==
    /\ ocr.pc = "open"
    /\ ocr' = [ocr EXCEPT !.pc = "threw", !.result = OcrThrew(UnknownErrorException)]
    /\ UNCHANGED <<ingestVars, scanVars, opt, appVars>>

\* One turn of the loop up to `await page.render(...)` (258-269): getPage(i)
\* resolves, the canvas is created and asked for its 2D context; with a
\* context the render starts, without one the page is passed over.
OcrPageStart(hasContext) ==
    /\ ocr.pc = "loop"
    /\ ocr.i <= MaxPagesForOcr(ocr.numPages)
    /\ IF hasContext
       THEN ocr' = [ocr EXCEPT !.pc = "render",
                               !.log = Append(@, Event("start", ocr.i))]
       ELSE ocr' = [ocr EXCEPT !.i = @ + 1,
                               !.log = Append(@, Event("skip", ocr.i))]
    /\ UNCHANGED <<ingestVars, scanVars, opt, appVars>>

\* The render resolves: the page's image is pushed (269-273).
OcrRenderResolved ==
    /\ ocr.pc = "render"
    /\ ocr' = [ocr EXCEPT !.pc = "loop", !.i = @ + 1,
                          !.images = Append(@, PageImage(ocr.i)),
                          !.log = Append(@, Event("done", ocr.i))]
    /\ UNCHANGED <<ingestVars, scanVars, opt, appVars>>

\* The render rejects: performOcrOnPdf rejects with the same value.
OcrRenderRejected(err) ==
    /\ ocr.pc = "render"
    /\ err \in RasterThrows
    /\ ocr' = [ocr EXCEPT !.pc = "threw", !.result = OcrThrew(err)]
    /\ UNCHANGED <<ingestVars, scanVars, opt, appVars>>

\* After the loop (276-280): no image is an error, otherwise the images go to
\* extractTextFromImagesWithGemini, up to its `await generateContent(...)`.
OcrLoopExit ==
    /\ ocr.pc = "loop"
    /\ ocr.i > MaxPagesForOcr(ocr.numPages)
    /\ IF Len(ocr.images) = 0
       THEN ocr' = [ocr EXCEPT !.pc = "threw", !.loopDone = TRUE,
                               !.result = OcrThrew(NoImagesError)]
       ELSE ocr' = [ocr EXCEPT !.pc = "generating", !.loopDone = TRUE,
                               !.calls = @ \o ExtractRequests(ocr.images)]
    /\ UNCHANGED <<ingestVars, scanVars, opt, appVars>>

\* generateContent resolves: response.text is returned as it is (736).
OcrGenerateResolved(text) ==
    /\ ocr.pc = "generating"
    /\ text \in OcrTexts
    /\ ocr' = [ocr EXCEPT !.pc = "returned", !.result = OcrReturned(text)]
    /\ UNCHANGED <<ingestVars, scanVars, opt, appVars>>

\* generateContent rejects (737-743).
OcrGenerateRejected(raw) ==
    /\ ocr.pc = "generating"
    /\ raw \in GenThrows
    /\ ocr' = [ocr EXCEPT !.pc = "threw", !.result = OcrThrew(ExtractError(raw))]
    /\ UNCHANGED <<ingestVars, scanVars, opt, appVars>>

NextOcr ==
    \/ OcrOpenResolved
    \/ OcrOpenRejected
    \/ \E hasContext \in BOOLEAN : OcrPageStart(hasContext)
    \/ OcrRenderResolved
    \/ \E err \in RasterThrows : OcrRenderRejected(err)
    \/ OcrLoopExit
    \/ \E text \in OcrTexts : OcrGenerateResolved(text)
    \/ \E raw \in GenThrows : OcrGenerateRejected(raw)

\* parseFile has not returned yet.
NotParsed == [returned |-> FALSE, value |-> [text |-> <<>>, isScanned |-> FALSE]]

\* The state of App after its first render (219-228).
IngestInit ==
    /\ userCvFile = Null
    /\ userCvText = <<>>
    /\ parsingError = Null
    /\ isParsing = FALSE
    /\ isScanning = FALSE
    /\ attempts = <<>>
    /\ lastOp = "none"

\* The optimization state of App after its first render (221-224).
AppInit ==
    /\ jobDescriptionText = <<>>
    /\ optimizedCvData = NoCvData
    /\ isLoading = FALSE
    /\ error = Null

Init ==
    /\ IngestInit
    /\ scanPdf = MkPdf(<<>>)
    /\ scanResult = NotParsed
    /\ ocr = OcrIdle
    /\ opt = OptIdle
    /\ AppInit

HandleFileChangeRejectedClears(name) ==
    /\ FileOf(name).type \notin AcceptedTypes
    /\ parsingError' = InvalidTypeMsg
    /\ userCvFile' = Null
    /\ userCvText' = <<>>
    /\ lastOp' = "reject"
    /\ UNCHANGED <<isParsing, isScanning, attempts>>
    /\ UNCHANGED <<scanPdf, scanResult, ocr, opt, appVars>>

\* handleFileChange with a file of a type that is not accepted (284-291);
\* the picker's handleFileSelect and handleDrop both end in onFileChange.
HandleFileChangeRejected(name) ==
    /\ FileOf(name).type \notin AcceptedTypes
    /\ parsingError' = InvalidTypeMsg
    /\ lastOp' = "reject"
    /\ UNCHANGED <<userCvFile, userCvText, isParsing, isScanning, attempts>>
    /\ UNCHANGED <<scanPdf, scanResult, ocr, opt, appVars>>

HandleFileChangeAcceptedKeepsScanning(name) ==
    /\ FileOf(name).type \in AcceptedTypes
    /\ Len(attempts) < MaxAttempts
    /\ userCvFile' = name
    /\ userCvText' = <<>>
    /\ parsingError' = Null
    /\ isParsing' = TRUE
    /\ attempts' = Append(attempts,
                      NewAttempt(name, \E a \in 1..Len(attempts) : InFlight(a)))
    /\ lastOp' = "start"
    /\ UNCHANGED <<isScanning, scanPdf, scanResult, ocr, opt, appVars>>

\* handleFileChange with an accepted file, up to `await parseFile(file)` (284-300).
HandleFileChangeAccepted(name) ==
    /\ FileOf(name).type \in AcceptedTypes
    /\ Len(attempts) < MaxAttempts
    /\ userCvFile' = name
    /\ userCvText' = <<>>
    /\ parsingError' = Null
    /\ isParsing' = TRUE
    /\ isScanning' = FALSE
    /\ attempts' = Append(attempts,
                      NewAttempt(name, \E a \in 1..Len(attempts) : InFlight(a)))
    /\ lastOp' = "start"
    /\ UNCHANGED <<scanPdf, scanResult, ocr, opt, appVars>>

\* The finally block (337-340) after the try block ended without a throw.
Finish(a, text, branch) ==
    /\ userCvText' = text
    /\ isParsing' = FALSE
    /\ isScanning' = FALSE
    /\ attempts' = [attempts EXCEPT ![a].pc = "done", ![a].branch = branch,
                                    ![a].outcome = "ok", ![a].text = text]
    /\ UNCHANGED <<userCvFile, parsingError>>

CatchKeepsLayerText(a, err, branch) ==
    /\ userCvFile' = Null
    /\ userCvText' = Parsed[attempts[a].file].text
    /\ parsingError' = IF CatchThrows(err) THEN parsingError
                       ELSE CategoryMessage(err, FileTypeOf(a))
    /\ isParsing' = FALSE
    /\ isScanning' = FALSE
    /\ attempts' = [attempts EXCEPT ![a].pc = "done", ![a].branch = branch,
                                    ![a].outcome = "failed", ![a].cause = err]

\* The catch block (313-336) and the finally block (337-340).
Catch(a, err, branch) ==
    /\ userCvFile' = Null
    /\ userCvText' = <<>>
    /\ parsingError' = IF CatchThrows(err) THEN parsingError
                       ELSE CategoryMessage(err, FileTypeOf(a))
    /\ isParsing' = FALSE
    /\ isScanning' = FALSE
    /\ attempts' = [attempts EXCEPT ![a].pc = "done", ![a].branch = branch,
                                    ![a].outcome = "failed", ![a].cause = err]

\* parseFile resolves (300-312): the scanned branch is entered up to
\* `await performOcrOnPdf(file)`, or the extracted text is stored.
ParseResolved(a) ==
    /\ attempts[a].pc = "parsing"
    /\ Parsed[attempts[a].file].ok
    /\ LET parsed == Parsed[attempts[a].file]
       IN  IF TakesOcrPath(FileTypeOf(a), parsed)
           THEN /\ isParsing' = FALSE
                /\ isScanning' = TRUE
                /\ attempts' = [attempts EXCEPT ![a].pc = "scanning",
                                                ![a].branch = "scanned",
                                                ![a].ocrRuns = @ + 1]
                /\ UNCHANGED <<userCvFile, userCvText, parsingError>>
           ELSE Finish(a, parsed.text, "direct")
    /\ UNCHANGED <<lastOp, scanPdf, scanResult, ocr, opt, appVars>>

\* parseFile rejects.
ParseRejected(a, err) ==
    /\ attempts[a].pc = "parsing"
    /\ err \in ParseThrows(FileTypeOf(a))
    /\ Catch(a, err, "direct")
    /\ UNCHANGED <<lastOp, scanPdf, scanResult, ocr, opt, appVars>>

\* performOcrOnPdf resolves (305-309).
OcrResolved(a, text) ==
    /\ attempts[a].pc = "scanning"
    /\ IF OcrTextIsEmpty(text)
       THEN Catch(a, OcrNoTextError, "scanned")
       ELSE Finish(a, text.chars, "scanned")
    /\ UNCHANGED <<lastOp, scanPdf, scanResult, ocr, opt, appVars>>

\* performOcrOnPdf rejects.
OcrRejected(a, err) ==
    /\ attempts[a].pc = "scanning"
    /\ Catch(a, err, "scanned")
    /\ UNCHANGED <<lastOp, scanPdf, scanResult, ocr, opt, appVars>>

\* handleFileClear (343-349).
HandleFileClear ==
    /\ userCvFile' = Null
    /\ userCvText' = <<>>
    /\ parsingError' = Null
    /\ isParsing' = FALSE
    /\ isScanning' = FALSE
    /\ lastOp' = "clear"
    /\ UNCHANGED <<attempts, scanPdf, scanResult, ocr, opt, appVars>>

Next ==
    \/ \E name \in FileNames : HandleFileChangeRejected(name)
    \/ \E name \in FileNames : HandleFileChangeAccepted(name)
    \/ \E a \in 1..Len(attempts) : ParseResolved(a)
    \/ \E a \in 1..Len(attempts) : \E err \in ParseThrows(FileTypeOf(a)) :
            ParseRejected(a, err)
    \/ \E a \in 1..Len(attempts) : \E text \in OcrTexts : OcrResolved(a, text)
    \/ \E a \in 1..Len(attempts) : \E err \in OcrThrows : OcrRejected(a, err)
    \/ HandleFileClear

Spec == Init /\ [][Next]_vars

(***************************************************************************)
(* Properties of the ingestion state.                                      *)
(***************************************************************************)

Idle ==
    /\ userCvFile = Null
    /\ userCvText = <<>>
    /\ parsingError = Null
    /\ isParsing = FALSE
    /\ isScanning = FALSE

\* What an attempt's own try / catch leaves in userCvText and parsingError.
ProducedText(att) == IF att.outcome = "ok" THEN att.text ELSE <<>>

ProducedError(att) ==
    IF att.outcome = "failed" /\ ~CatchThrows(att.cause)
    THEN CategoryMessage(att.cause, FileOf(att.file).type)
    ELSE Null

\* C1: when attempt B was started while an earlier attempt A was in flight,
\* and both have finished (no clear or other selection since B started, no
\* catch block left by an exception of its own), userCvText and parsingError
\* are the ones B produced, whatever the order in which the awaited steps
\* resolved.
C1_NewerAttemptWins ==
    LET b == Len(attempts)
    IN  (/\ b >= 2
         /\ lastOp = "start"
         /\ attempts[b].overlap
         /\ \A a \in 1..b : ~InFlight(a) /\ ~CatchThrows(attempts[a].cause))
        => /\ userCvText = ProducedText(attempts[b])
           /\ parsingError = ProducedError(attempts[b])

\* C2: after handleFileClear, and until the next file selection, the state
\* is Idle: an attempt in flight at the clear writes nothing later.
C2_ClearedStaysIdle == lastOp = "clear" => Idle

\* The number of words of the text extracted from each file.
ExtractedWords ==
    [name \in FileNames |->
        WordCount(IF Files[name].type = PdfType
                  THEN TextContent(Files[name].pages)
                  ELSE Files[name].body)]

\* C4: the OCR path is entered only for a file whose declared type is PDF and
\* which has pages and fewer than 50 extracted words: never for a PDF with 50
\* words or more, never for a DOCX.
C4_OcrOnlyForScannedPdf ==
    \A a \in 1..Len(attempts) :
        attempts[a].ocrRuns > 0 =>
            LET file == FileOf(attempts[a].file)
            IN  /\ file.type = PdfType
                /\ Len(file.pages) > 0
                /\ ExtractedWords[attempts[a].file] < 50

C4_Witness ==
    \E a, b \in 1..Len(attempts) :
        /\ attempts[a].ocrRuns > 0
        /\ attempts[b].file \in {"text50.pdf", "short.docx"}
        /\ attempts[b].outcome = "ok"
        /\ attempts[b].ocrRuns = 0

\* The failures of the scanned branch the taxonomy names: no page image, a
\* failed OCR generation call, an empty or whitespace-only OCR text.
ScannedBranchFailures == {NoImagesError, OcrKeyError, OcrApiError, OcrNoTextError}

\* C7: an attempt that fails in the scanned branch ends with userCvText = ''
\* and userCvFile = null (and with a parsingError for the failures the
\* taxonomy names), and no step of an attempt on the scanned branch stores
\* the text layer's text in userCvText.
C7_ScannedFailureDiscardsText ==
    [][\A a \in 1..Len(attempts) :
          /\ (attempts[a].pc = "scanning" /\ attempts'[a].outcome = "failed")
                => /\ userCvText' = <<>>
                   /\ userCvFile' = Null
                   /\ attempts'[a].cause \in ScannedBranchFailures
                         => parsingError' # Null
          /\ (attempts'[a] # attempts[a] /\ attempts'[a].branch = "scanned")
                => userCvText' # Parsed[attempts[a].file].text]_vars

C7_Witness ==
    \E a \in 1..Len(attempts) :
        /\ attempts[a].branch = "scanned"
        /\ attempts[a].outcome = "failed"
        /\ attempts[a].cause = OcrApiError
        /\ userCvText = <<>>
        /\ parsingError = OcrFailedMsg

\* C8: when the decoder raises its password error, the attempt ends with the
\* password-protected message in parsingError, userCvText = '' and
\* userCvFile = null.
C8_PasswordProtected ==
    [][\A a \in 1..Len(attempts) :
          (attempts[a].pc # "done" /\ attempts'[a].pc = "done"
              /\ attempts'[a].cause = PasswordException)
            => /\ parsingError' = PasswordMsg
               /\ userCvText' = <<>>
               /\ userCvFile' = Null]_vars

C8_Witness ==
    \E a \in 1..Len(attempts) :
        /\ attempts[a].cause = PasswordException
        /\ parsingError = PasswordMsg
        /\ userCvText = <<>>
        /\ userCvFile = Null

(***************************************************************************)
(* parseFile as a function of the decoded PDF: SpecScan draws a PDF and     *)
(* applies parseFile to it.                                                *)
(***************************************************************************)

InitScan ==
    /\ IngestInit
    /\ \E n \in 0..MaxScanPages : scanPdf \in ScanPdfs(n)
    /\ scanResult = NotParsed
    /\ ocr = OcrIdle
    /\ opt = OptIdle
    /\ AppInit

ScanParse ==
    /\ ~scanResult.returned
    /\ scanResult' = [returned |-> TRUE, value |-> ParseFile(scanPdf)]
    /\ UNCHANGED <<ingestVars, scanPdf, ocr, opt, appVars>>

NextScan == ScanParse

SpecScan == InitScan /\ [][NextScan]_vars

\* C3: parseFile reports isScanned = true exactly when the PDF has at least
\* one page and the concatenated page text has fewer than 50 words.
C3_ScannedIffPagedAndUnder50Words ==
    scanResult.returned =>
        (scanResult.value.isScanned <=>
            (Len(scanPdf.pages) > 0 /\ WordCount(scanResult.value.text) < 50))

C3_Witness ==
    /\ scanResult.returned
    /\ Len(scanPdf.pages) > 0
    /\ WordCount(scanResult.value.text) = 49
    /\ scanResult.value.isScanned

(***************************************************************************)
(* performOcrOnPdf on its own: SpecOcr draws the page count of a scanned    *)
(* PDF and runs performOcrOnPdf on it.                                     *)
(***************************************************************************)

InitOcr ==
    /\ IngestInit
    /\ scanPdf = MkPdf(<<>>)
    /\ scanResult = NotParsed
    /\ \E n \in 1..MaxOcrPages :
          ocr = [OcrIdle EXCEPT !.pc = "open", !.numPages = n]
    /\ opt = OptIdle
    /\ AppInit

SpecOcr == InitOcr /\ [][NextOcr]_vars

\* The pages whose rasterization completed, in the order of completion.
RasterizedPages ==
    LET done == SelectSeq(ocr.log, LAMBDA e : e.ev = "done")
    IN  [k \in 1..Len(done) |-> done[k].page]

\* Pages are taken one at a time, in increasing order: every event is about
\* a later page than the one before it, unless it completes the render the
\* event before it started.
SequentialInPageOrder ==
    \A k \in 1..Len(ocr.log) :
        /\ ocr.log[k].ev = "done" =>
              k > 1 /\ ocr.log[k - 1] = Event("start", ocr.log[k].page)
        /\ (ocr.log[k].ev # "done" /\ k > 1) =>
              /\ ocr.log[k - 1].ev # "start"
              /\ ocr.log[k - 1].page < ocr.log[k].page

\* C5 as stated: the image sequence that results from the loop has exactly
\* min(pageCount, 5) entries, the pages 1..min(pageCount, 5) in order.
C5_ExactlyMinPagesImages ==
    (ocr.loopDone /\ ocr.images # <<>>) =>
        ocr.images = [k \in 1..Min(ocr.numPages, 5) |-> PageImage(k)]

\* C5, amended: only pages 1..min(pageCount, 5) are rasterized, one at a time
\* in increasing page order; the image sequence holds, in page order, the
\* pages whose canvas gave a 2D context, so at most min(pageCount, 5)
\* entries, and exactly the pages 1..min(pageCount, 5) when no canvas was
\* without a context.
C5_RasterizesFirstPagesInOrder ==
    LET cap == IF ocr.numPages <= 5 THEN ocr.numPages ELSE 5
    IN  /\ \A k \in 1..Len(ocr.log) : ocr.log[k].page \in 1..cap
        /\ SequentialInPageOrder
        /\ ocr.images = [k \in 1..Len(RasterizedPages) |-> PageImage(RasterizedPages[k])]
        /\ \A k \in 1..(Len(ocr.images) - 1) : ocr.images[k] < ocr.images[k + 1]
        /\ Len(ocr.images) <= cap
        /\ ocr.loopDone =>
              /\ \A pg \in 1..cap : \E k \in 1..Len(ocr.log) :
                    ocr.log[k].page = pg /\ ocr.log[k].ev \in {"done", "skip"}
              /\ (\A k \in 1..Len(ocr.log) : ocr.log[k].ev # "skip")
                    => ocr.images = [k \in 1..cap |-> PageImage(k)]

C5_Witness ==
    /\ ocr.numPages = 12
    /\ ocr.loopDone
    /\ ocr.images = <<PageImage(1), PageImage(2), PageImage(3), PageImage(5)>>

IngestShape(file, text, parsing, scanning) ==
    [file |-> file, text |-> text, isParsing |-> parsing, isScanning |-> scanning]

IngestShapes ==
    {IngestShape(Null, <<>>, FALSE, FALSE),
     IngestShape("text50.pdf", <<"c", "v">>, FALSE, FALSE),
     IngestShape("short.docx", <<" ", "\n">>, FALSE, FALSE),
     IngestShape("text50.pdf", <<>>, TRUE, FALSE),
     IngestShape("scan49.pdf", <<>>, FALSE, TRUE),
     IngestShape("scan49.pdf", <<"c", "v">>, FALSE, TRUE)}

InitOpt ==
    /\ \E shape \in IngestShapes :
          /\ userCvFile = shape.file
          /\ userCvText = shape.text
          /\ isParsing = shape.isParsing
          /\ isScanning = shape.isScanning
    /\ parsingError = Null
    /\ attempts = <<>>
    /\ lastOp = "none"
    /\ scanPdf = MkPdf(<<>>)
    /\ scanResult = NotParsed
    /\ ocr = OcrIdle
    /\ opt = OptIdle
    /\ AppInit

SpecOpt == InitOpt /\ [][NextOpt]_vars

\* C9: optimizeCvWithGemini returns a value only when the payload conforms to
\* the CvData schema, and every payload that does not conform fails with the
\* malformed-output error.
C9_ReturnsOnlyConformingCvData ==
    (opt.pc = "done" /\ opt.outcome.kind = "resolved" /\ opt.outcome.text.defined) =>
        IF /\ opt.outcome.text.wellFormed
           /\ ConformsToCvSchema(opt.outcome.text.value)
        THEN opt.result = OptReturn(opt.outcome.text.value)
        ELSE opt.result = OptThrow(MalformedMsg)

\* The failure carries the API's diagnostic of an unusable credential.
CredentialFailure(raw) ==
    raw.message # Null /\ Includes(raw.message, "API key not valid")

\* C10: when the generation call fails, optimizeCvWithGemini fails with the
\* invalid-credential error if the failure is a credential failure and with
\* the generic generation-failure error otherwise, and with nothing else.
C10_CallFailureIsCredentialOrGeneric ==
    (opt.pc = "done" /\ opt.outcome.kind = "rejected") =>
        opt.result = OptThrow(IF CredentialFailure(opt.outcome.raw)
                              THEN InvalidKeyMsg
                              ELSE GenerationFailedMsg)

\* C11: every invocation of optimizeCvWithGemini issues exactly one
\* generateContent request, carrying the JSON mime type and cvSchema; when
\* the call has ended, with a value or with an error, the number of requests
\* still equals the number of invocations: neither the function nor
\* handleOptimize issued a second one.
C11_OneSchemaRequestPerInvocation ==
    /\ Len(opt.calls) = opt.started
    /\ \A k \in 1..Len(opt.calls) :
          /\ opt.calls[k].responseSchema = "cvSchema"
          /\ opt.calls[k].responseMimeType = "application/json"
    /\ opt.pc = "generating" => opt.calls # <<>>
    /\ opt.pc = "idle" => opt.calls = <<>>

\* A call failed, the error is shown, and one request was issued.
C11_Witness ==
    /\ opt.pc = "done"
    /\ opt.result = OptThrow(MalformedMsg)
    /\ error = MalformedMsg
    /\ ~isLoading
    /\ Len(opt.calls) = 1

\* The text holds a character that trim() keeps.
NonBlank(s) == \E i \in 1..Len(s) : ~IsSpace(s[i])

\* C15: an invocation of handleOptimize issues a generation request, for the
\* two texts, exactly when userCvText and jobDescriptionText are both
\* non-empty after trimming and neither isParsing nor isScanning is set;
\* otherwise it issues none and leaves isLoading, error and optimizedCvData
\* as they were.
C15_OptimizeOnlyWhenFormReady ==
    [][opt'.invoked # opt.invoked =>
          IF /\ NonBlank(userCvText)
             /\ NonBlank(jobDescriptionText)
             /\ ~isParsing
             /\ ~isScanning
          THEN /\ opt'.calls = Append(opt.calls,
                                      GenerateRequest(userCvText, jobDescriptionText))
               /\ opt'.pc = "generating"
          ELSE /\ opt'.calls = opt.calls
               /\ opt'.pc = opt.pc
               /\ UNCHANGED <<isLoading, error, optimizedCvData>>]_vars

\* One invocation returned early on a blank job description, and the next
\* one, after the description was typed, issued the request.
C15_Witness ==
    /\ opt.invoked = 2
    /\ opt.started = 1
    /\ opt.pc = "generating"
    /\ isLoading
    /\ opt.calls = <<GenerateRequest(userCvText, jobDescriptionText)>>

(***************************************************************************)
(* Further properties of the ingestion state, under Spec.                  *)
(***************************************************************************)

\* C12: an ingestion error and a stored text are never both present:
\* parsingError is non-null only when userCvText is empty.
C12_ErrorExcludesText == parsingError # Null => userCvText = <<>>

\* What extractTextFromImagesWithGemini throws when generateContent rejects.
OcrCallErrors == {ExtractError(raw) : raw \in GenThrows}

\* C13: in the scanned branch, an attempt ended by an error of the OCR
\* generation call shows the OCR-capability-failure message, and one ended by
\* an empty or whitespace-only OCR result shows the OCR-produced-no-text
\* message.
C13_OcrFailureCategories ==
    [][\A a \in 1..Len(attempts) :
          (attempts[a].pc = "scanning" /\ attempts'[a].pc = "done") =>
              /\ attempts'[a].cause \in OcrCallErrors
                    => parsingError' = OcrFailedMsg
              /\ attempts'[a].cause = OcrNoTextError
                    => parsingError' = OcrEmptyMsg]_vars

\* C14: the step on which a file of a type other than PDF and DOCX is handed
\* to handleFileChange sets parsingError to the unsupported-format message,
\* starts no attempt, and leaves userCvFile, userCvText, isParsing and
\* isScanning as they were.
C14_UnsupportedTypeRejected ==
    [][(lastOp # "reject" /\ lastOp' = "reject") =>
          /\ parsingError' = InvalidTypeMsg
          /\ attempts' = attempts
          /\ UNCHANGED <<userCvFile, userCvText, isParsing, isScanning>>]_vars

\* A file of another type was handed over while a text was stored.
C14_Witness ==
    /\ lastOp = "reject"
    /\ parsingError = InvalidTypeMsg
    /\ userCvFile = "text50.pdf"
    /\ userCvText # <<>>
    /\ ~isParsing
    /\ ~isScanning
    /\ Len(attempts) = 1

\* C16: the step that ends an attempt in failure leaves a non-null
\* parsingError, userCvFile = null, userCvText = '' and both flags false,
\* whatever value was thrown.
C16_FailureAlwaysReported ==
    [][\A a \in 1..Len(attempts) :
          (attempts[a].pc # "done" /\ attempts'[a].outcome = "failed") =>
              /\ parsingError' # Null
              /\ userCvFile' = Null
              /\ userCvText' = <<>>
              /\ ~isParsing'
              /\ ~isScanning']_vars

\* C17: isParsing and isScanning are never both true.
C17_NeverParsingAndScanning == ~(isParsing /\ isScanning)

\* A newer attempt awaits parseFile while an older one awaits OCR.
C17_Witness ==
    /\ Len(attempts) = 2
    /\ attempts[1].pc = "scanning"
    /\ attempts[2].pc = "parsing"
    /\ isParsing
    /\ ~isScanning

====
